---- MODULE Spec2Model ----
(***************************************************************************)
(* Model of the WOOHAN services: the memory service, the event service    *)
(* (significance decision, clustering, batches), the similarity and        *)
(* clustering of the semantic service, and the identity service.           *)
(*                                                                         *)
(* Real numbers are fixed-point integers in units of 1/Scale (0.5 is 500). *)
(* A learning rate is the exact product of two such numbers and is kept in *)
(* units of 1/(Scale*Scale).  NaN is a distinguished value on which every  *)
(* comparison is false, as in IEEE-754.                                    *)
(*                                                                         *)
(* Every call of an async function is a slot of `calls`: it runs from its  *)
(* entry to its first suspending await in one step and from there to its   *)
(* return in a second step, so calls interleave at the await only.         *)
(***************************************************************************)
EXTENDS Integers, Sequences, FiniteSets, TLC

VARIABLES config, calls, issued

vars == <<config, calls, issued>>

(***************************************************************************)
(* Bounds of the model.                                                    *)
(***************************************************************************)
\* number of calls made in one behaviour
MaxCalls == 2
\* number of events of one batchUpdateMemory call
MaxBatch == 2
\* config.MEMORY_DIMENSION (256 by default), reduced
MEMORY_DIMENSION == 2

(***************************************************************************)
(* Fixed-point arithmetic.                                                 *)
(***************************************************************************)
Scale == 10 * 10 * 10
MicroScale == Scale * Scale
NaN == 0 - 999999

IsNaN(x) == x = NaN
\* +Infinity and -Infinity, two more integers that no computation of the
\* model yields
PosInfinity == 0 - 777777
NegInfinity == 0 - 666666
IsInfinite(x) == x = PosInfinity \/ x = NegInfinity
\* IEEE comparisons: false as soon as one side is NaN
Lt(a, b) == ~IsNaN(a) /\ ~IsNaN(b) /\ a < b
Gt(a, b) == ~IsNaN(a) /\ ~IsNaN(b) /\ a > b
Ge(a, b) == ~IsNaN(a) /\ ~IsNaN(b) /\ a >= b

Abs(x) == IF x < 0 THEN 0 - x ELSE x
Min(a, b) == IF a <= b THEN a ELSE b
Max(a, b) == IF a >= b THEN a ELSE b

\* n / d rounded to the nearest integer, symmetric in the sign of n (d > 0)
RoundDiv(n, d) ==
  LET half(m) == (m \div d) + (IF 2 * (m % d) >= d THEN 1 ELSE 0)
  IN IF n >= 0 THEN half(n) ELSE 0 - half(0 - n)

MulFP(a, b) == RoundDiv(a * b, Scale)

RECURSIVE SqrtSearch(_, _, _)
SqrtSearch(n, lo, hi) ==
  IF lo >= hi THEN lo
  ELSE LET mid == (lo + hi + 1) \div 2
       IN IF mid * mid <= n THEN SqrtSearch(n, mid, hi)
                            ELSE SqrtSearch(n, lo, mid - 1)

\* Math.sqrt on a sum of squares of fixed-point numbers: the result is again
\* in units of 1/Scale (floor)
Sqrt(n) == SqrtSearch(n, 0, Min(n, 46340))

\* Math.tanh: the Pade approximant x(27 + x^2)/(27 + 9x^2), saturated at 1
Tanh(x) ==
  LET ax == Abs(x)
      q == RoundDiv(ax * ax, Scale)
      r == IF ax >= 4 * Scale THEN Scale
           ELSE Min(RoundDiv(ax * (27 * Scale + q), 27 * Scale + 9 * q), Scale)
  IN IF x < 0 THEN 0 - r ELSE r

\* pi, from 355/113
PiFP == (355 * Scale) \div 113

\* Math.sin: Bhaskara's approximation 16x(pi - x)/(5pi^2 - 4x(pi - x)) on
\* [0, pi], extended by sin(x + pi) = -sin(x) (x >= 0)
Sin(x) ==
  LET r == x % (2 * PiFP)
      y == IF r > PiFP THEN r - PiFP ELSE r
      q == RoundDiv(y * (PiFP - y), Scale)
      v == RoundDiv(16 * q * Scale, RoundDiv(5 * PiFP * PiFP, Scale) - 4 * q)
  IN IF r > PiFP THEN 0 - v ELSE v

Cos(x) == Sin(x + PiFP \div 2)

\* e^x for 0 <= x, by its Taylor polynomial of degree 4 (x capped at 8)
ExpPos(x) ==
  LET c == Min(x, 8 * Scale)
      t2 == RoundDiv(c * c, 2 * Scale)
      t3 == RoundDiv(t2 * c, 3 * Scale)
      t4 == RoundDiv(t3 * c, 4 * Scale)
  IN Scale + c + t2 + t3 + t4

\* Math.exp
Exp(x) == IF x >= 0 THEN ExpPos(x) ELSE RoundDiv(Scale * Scale, ExpPos(0 - x))

RECURSIVE SumSeq(_)
SumSeq(s) == IF s = <<>> THEN 0 ELSE Head(s) + SumSeq(Tail(s))

ConstVec(n, v) == [i \in 1..n |-> v]

\* Euclidean norm of a vector
Norm(v) == Sqrt(SumSeq([i \in DOMAIN v |-> v[i] * v[i]]))

(***************************************************************************)
(* Configuration (config schema of _core/config).                          *)
(***************************************************************************)
SIGNIFICANCE_THRESHOLD == 500
GRADIENT_CLIP_NORM == 1000
\* LEARNING_RATE is any positive number; 0.001 is the default
DEFAULT_LEARNING_RATE == 1
LearningRates == {DEFAULT_LEARNING_RATE, Scale}

(***************************************************************************)
(* Inputs.                                                                 *)
(***************************************************************************)
Users == {"u1", "u2"}

SmallEmbedding == ConstVec(MEMORY_DIMENSION, 100)
LargeEmbedding == ConstVec(MEMORY_DIMENSION, 10 * Scale)
ShortEmbedding == ConstVec(MEMORY_DIMENSION - 1, 100)

\* the (eventEmbedding, significance) arguments of updateMemory that are tried:
\* below, at and above the threshold, NaN, out of range, wrong dimension
UpdateInputs ==
  {<<SmallEmbedding, 200>>, <<SmallEmbedding, 500>>,
   <<LargeEmbedding, 1000>>, <<SmallEmbedding, NaN>>,
   <<SmallEmbedding, 0 - 100>>, <<SmallEmbedding, 1500>>, <<ShortEmbedding, 800>>}

\* outcomes of (Math.random() - 0.5) * 0.01 per coordinate, in [-0.005, 0.005):
\* the draws tried for a read, and the one tried inside an update
UpdateNoise == {ConstVec(MEMORY_DIMENSION, 0 - 5)}
NoiseVectors ==
  UpdateNoise \cup {[i \in 1..MEMORY_DIMENSION |-> IF i % 2 = 1 THEN 4 ELSE 0 - 3]}

\* milliseconds between the two readings of the clock of one update: none, or
\* a jump of the clock that makes the decay visible at the model's resolution
MsPerDay == 1000 * 60 * 60 * 24
TimeDeltas == {0, 20 * MsPerDay}

\* the event lists of batchUpdateMemory that are tried: an insignificant and
\* a significant event in alternation, and a list with an invalid event
BatchEvents == {<<SmallEmbedding, 200>>, <<LargeEmbedding, 1000>>}
Alternating(n, first) ==
  [k \in 1..n |-> IF (k % 2 = 1) = first THEN <<SmallEmbedding, 200>>
                                         ELSE <<LargeEmbedding, 1000>>]
BatchInputs ==
  {Alternating(n, first) : n \in 0..MaxBatch, first \in BOOLEAN}
  \cup {<<<<SmallEmbedding, 1500>>>>}
BatchUser == "u1"
\* the clock inside a batch
BatchTimeDeltas == {0}

(***************************************************************************)
(* memoryService                                                           *)
(***************************************************************************)
\* initializeMemory: `noise` is the outcome of the Math.random() draws
initializeMemory(userId, noise) ==
  [userId |-> userId,
   dimension |-> MEMORY_DIMENSION,
   state |-> noise,
   eventCount |-> 0,
   significantEventCount |-> 0,
   totalLearningUpdates |-> 0]

\* getMemoryState: nothing is stored; every call initializes a new state
getMemoryState(userId, noise) == initializeMemory(userId, noise)

DecayFactor == 990

RECURSIVE PowFP(_, _)
PowFP(b, n) == IF n = 0 THEN Scale ELSE MulFP(b, PowFP(b, n - 1))

\* Math.pow(decayFactor, timeDeltaMs / MsPerDay): exact on whole days, first
\* order in the remaining fraction of a day
DecayOf(timeDeltaMs) ==
  LET whole == timeDeltaMs \div MsPerDay
      rest == timeDeltaMs % MsPerDay
  IN MulFP(PowFP(DecayFactor, whole),
           Scale - ((Scale - DecayFactor) * rest) \div MsPerDay)

applyTimeDecay(state, timeDeltaMs) ==
  [i \in DOMAIN state |-> MulFP(state[i], DecayOf(timeDeltaMs))]

\* learningRate is in units of 1/MicroScale
applyLSTMUpdate(memoryState, eventEmbedding, learningRate) ==
  [i \in DOMAIN memoryState |->
     LET embedding == IF i \in DOMAIN eventEmbedding THEN eventEmbedding[i] ELSE 0
         forgetGate == Tanh(MulFP(memoryState[i], 900))
         inputGate == Tanh(embedding)
     IN RoundDiv(forgetGate * (MicroScale - learningRate) + inputGate * learningRate,
                 MicroScale)]

calculateStateChange(oldState, newState) ==
  Sqrt(SumSeq([i \in DOMAIN oldState |->
                 (newState[i] - oldState[i]) * (newState[i] - oldState[i])]))

\* the two validations at the head of updateMemory
SignificanceRejected(significance) == Lt(significance, 0) \/ Gt(significance, Scale)
DimensionRejected(eventEmbedding) == Len(eventEmbedding) # MEMORY_DIMENSION
updateMemoryRejects(eventEmbedding, significance) ==
  SignificanceRejected(significance) \/ DimensionRejected(eventEmbedding)

\* the threshold updateMemory compares against
updateThreshold == SIGNIFICANCE_THRESHOLD

shouldLearnStrict(significance, threshold) == Gt(significance, threshold)
shouldLearn(significance, threshold) == Ge(significance, threshold)

\* gradient clipping of the step from decayedState to updatedState
clipState(decayedState, updatedState, stateChange) ==
  IF stateChange > GRADIENT_CLIP_NORM
  THEN LET scale == RoundDiv(GRADIENT_CLIP_NORM * Scale, stateChange)
       IN [i \in DOMAIN updatedState |->
             decayedState[i] + MulFP(updatedState[i] - decayedState[i], scale)]
  ELSE updatedState

\* the vector updateMemory stores
BlendAlways(decayedState, eventEmbedding, significance, learn, learningRateCfg) ==
  LET learningRate == learningRateCfg * (IF IsNaN(significance) THEN 0 ELSE significance)
      updatedState == applyLSTMUpdate(decayedState, eventEmbedding, learningRate)
  IN clipState(decayedState, updatedState,
               calculateStateChange(decayedState, updatedState))
nextState(decayedState, eventEmbedding, significance, learn, learningRateCfg) ==
  IF learn
  THEN LET learningRate == learningRateCfg * significance
           updatedState == applyLSTMUpdate(decayedState, eventEmbedding, learningRate)
       IN clipState(decayedState, updatedState,
                    calculateStateChange(decayedState, updatedState))
  ELSE decayedState

\* the state change updateMemory reports: computed before the clipping and
\* not recomputed after it
reportedStateChange(decayedState, eventEmbedding, significance, learn, learningRateCfg) ==
  IF learn
  THEN calculateStateChange(decayedState,
         applyLSTMUpdate(decayedState, eventEmbedding, learningRateCfg * significance))
  ELSE 0

\* the counters of the MemoryState object updateMemory builds
CountSignificantOnly(memoryState, learn) ==
  [eventCount |-> memoryState.eventCount,
   significantEventCount |-> memoryState.significantEventCount + 1,
   totalLearningUpdates |-> memoryState.totalLearningUpdates + 1]
nextCounters(memoryState, learn) ==
  [eventCount |-> memoryState.eventCount + 1,
   significantEventCount |->
     IF learn THEN memoryState.significantEventCount + 1
              ELSE memoryState.significantEventCount,
   totalLearningUpdates |->
     IF learn THEN memoryState.totalLearningUpdates + 1
              ELSE memoryState.totalLearningUpdates]

\* updateMemory from the resumption of `await getMemoryState` to its return
updateMemoryResult(userId, memoryState, eventEmbedding, significance, timeDeltaMs, cfg) ==
  LET decayedState == applyTimeDecay(memoryState.state, timeDeltaMs)
      threshold == updateThreshold
      learn == shouldLearn(significance, threshold)
      counters == nextCounters(memoryState, learn)
  IN [userId |-> userId,
      updated |-> learn,
      memoryState |->
        [userId |-> memoryState.userId,
         dimension |-> memoryState.dimension,
         state |-> nextState(decayedState, eventEmbedding, significance, learn,
                             cfg.LEARNING_RATE),
         eventCount |-> counters.eventCount,
         significantEventCount |-> counters.significantEventCount,
         totalLearningUpdates |-> counters.totalLearningUpdates],
      significance |-> significance,
      learningApplied |-> learn,
      stateChange |-> reportedStateChange(decayedState, eventEmbedding, significance,
                                          learn, cfg.LEARNING_RATE)]

\* getLearningMetrics, from the state getMemoryState gave it
getLearningMetrics(userId, memoryState, cfg) ==
  [userId |-> userId,
   totalEvents |-> memoryState.eventCount,
   significantEvents |-> memoryState.significantEventCount,
   learningUpdates |-> memoryState.totalLearningUpdates,
   avgSignificance |->
     IF memoryState.significantEventCount > 0
     THEN RoundDiv(memoryState.significantEventCount * Scale, memoryState.eventCount)
     ELSE 0,
   privacyEpsilon |-> cfg.PRIVACY_EPSILON]

(***************************************************************************)
(* eventService                                                            *)
(***************************************************************************)
\* a field of an event or of its metadata that is not there (undefined)
Absent == 0 - 888888

\* An EventInput.  content is a value of the given type, and for a string its
\* length and the sum of its character codes; timestamp is "absent", a
\* "date", an "invalidDate" (a Date object that holds no time, as new
\* Date("x") gives) or a "string"; the metadata holds importance (a number,
\* NaN or Absent) and age: Date.now() minus metadata.timestamp in seconds,
\* Absent without a metadata.timestamp, NaN when it does not parse as a date.
EventInput(userId, userIdType, contentType, length, hash, timestamp, importance, age) ==
  [userId |-> userId, userIdType |-> userIdType, contentType |-> contentType,
   length |-> length, hash |-> hash, timestamp |-> timestamp,
   importance |-> importance, age |-> age]

\* validateEvent: TRUE when it throws ValidationError
validateEventThrows(event) ==
  \/ event.userId = "" \/ event.userIdType # "string"
  \/ event.contentType # "string" \/ event.length = 0
  \/ event.length < 5
  \/ event.length > 10000
  \/ event.timestamp \notin {"absent", "date", "invalidDate"}

\* createEmbedding: coordinate i (from 0) is sin((hash+i)*0.1)*0.5 +
\* cos((hash+i)*0.05)*0.3, then the vector is divided by norm + 1e-8
createEmbedding(event) ==
  LET raw == [i \in 1..MEMORY_DIMENSION |->
                MulFP(Sin((event.hash + i - 1) * 100), 500)
                + MulFP(Cos((event.hash + i - 1) * 50), 300)]
      norm == Norm(raw)
  IN [i \in 1..MEMORY_DIMENSION |->
        IF norm = 0 THEN 0 ELSE RoundDiv(raw[i] * Scale, norm)]

\* if (metadata.importance): undefined, NaN and 0 are falsy
Truthy(x) == x # Absent /\ ~IsNaN(x) /\ x # 0

SecPerDay == 60 * 60 * 24

\* ageMs / (1000 * 60 * 60 * 24), from the age in seconds
AgeDays(age) ==
  IF age >= 0
  THEN (age \div SecPerDay) * Scale + RoundDiv((age % SecPerDay) * Scale, SecPerDay)
  ELSE 0 - ((((0 - age) \div SecPerDay) * Scale)
            + RoundDiv(((0 - age) % SecPerDay) * Scale, SecPerDay))

\* calculateSignificance
calculateSignificance(event, embedding) ==
  LET lengthFactor == MulFP(Min(RoundDiv(event.length * Scale, 500), Scale), 200)
      magnitudeFactor == MulFP(Min(Norm(embedding), Scale), 200)
      importanceFactor ==
        IF Truthy(event.importance) THEN MulFP(Min(event.importance, Scale), 200) ELSE 0
      recencyFactor ==
        IF event.age = Absent THEN 0
        ELSE IF IsNaN(event.age) THEN NaN
        ELSE MulFP(Exp(RoundDiv(0 - AgeDays(event.age), 30)), 100)
      score ==
        IF IsNaN(recencyFactor) THEN NaN
        ELSE 500 + lengthFactor + magnitudeFactor + importanceFactor + recencyFactor
  IN IF IsNaN(score) THEN NaN ELSE Min(Max(score, 0), Scale)

\* the threshold processEvent compares against
eventThreshold == SIGNIFICANCE_THRESHOLD

significant(significance, threshold) == Ge(significance, threshold)

\* processEvent for an event that passed validateEvent
processEventResult(event) ==
  LET embedding == createEmbedding(event)
      significance == calculateSignificance(event, embedding)
      threshold == eventThreshold
      sig == significant(significance, threshold)
  IN [userId |-> event.userId, embedding |-> embedding, significance |-> significance,
      threshold |-> threshold, significant |-> sig, learningTriggered |-> sig]

\* the events that are tried: a plain event, one pushed below the threshold
\* and one pushed onto it by a negative importance, a recent and a month-old
\* one, and a content that is too short; contents at and next to the two
\* length limits; an importance above 1, a metadata.timestamp in the future
\* and one that does not parse; the timestamp values; a userId and a content
\* that are empty or no strings
EventInputs ==
  {EventInput(u, "string", "string", 28, 2800, "absent", Absent, Absent) : u \in Users}
  \cup
  {EventInput("u1", "string", "string", 28, 2800, "absent", 0 - 2000, Absent),
   EventInput("u1", "string", "string", 25, 2500, "absent", 0 - 1050, Absent),
   EventInput("u1", "string", "string", 28, 2800, "date", 0 - 2000, 30 * SecPerDay),
   EventInput("u2", "string", "string", 3, 300, "absent", Absent, Absent)}
  \cup
  {EventInput("u1", "string", "string", 4, 4 * 97, "absent", Absent, Absent),
   EventInput("u1", "string", "string", 5, 5 * 97, "absent", Absent, Absent),
   EventInput("u1", "string", "string", 10000, 10000 * 97, "absent", Absent, Absent),
   EventInput("u1", "string", "string", 10001, 10001 * 97, "absent", Absent, Absent),
   EventInput("u2", "string", "string", 28, 2800, "date", 5 * Scale, 0 - 30 * SecPerDay),
   EventInput("u2", "string", "string", 28, 2800, "absent", Absent, NaN),
   EventInput("u2", "string", "string", 28, 2800, "invalidDate", Absent, Absent),
   EventInput("u2", "string", "string", 28, 2800, "string", Absent, Absent),
   EventInput("", "string", "string", 28, 2800, "absent", Absent, Absent),
   EventInput("u2", "number", "string", 28, 2800, "absent", Absent, Absent),
   EventInput("u2", "string", "number", 0, 0, "absent", Absent, Absent),
   EventInput("u2", "string", "string", 0, 0, "absent", Absent, Absent)}

(***************************************************************************)
(* Similarity and clustering (eventService, semanticService, memoryService)*)
(***************************************************************************)
\* the loop and the quotient shared by every cosine similarity of the code:
\* dotProduct / (sqrt(norm1) * sqrt(norm2)), and 0 when the denominator is 0.
\* The loop runs over the indexes of vec1: a shorter vec2 is read past its
\* end, which makes the sums and the quotient NaN, as a NaN coordinate does;
\* of a longer vec2 only the first coordinates are read.
cosineOf(vec1, vec2) ==
  LET read == [i \in DOMAIN vec1 |-> IF i \in DOMAIN vec2 THEN vec2[i] ELSE 0]
      dotProduct == SumSeq([i \in DOMAIN vec1 |-> vec1[i] * read[i]])
      denominator == Norm(vec1) * Norm(read)
  IN IF Len(vec2) < Len(vec1) THEN NaN
     ELSE IF \E i \in DOMAIN vec1 : IsNaN(vec1[i]) \/ IsNaN(read[i]) THEN NaN
     ELSE IF denominator = 0 THEN 0
     ELSE RoundDiv(dotProduct * Scale, denominator)

\* calculateCosineSimilarity: TRUE when it throws ValidationError
calculateCosineSimilarityThrows(vec1, vec2) == Len(vec1) # Len(vec2)
calculateCosineSimilarity(vec1, vec2) == cosineOf(vec1, vec2)

\* calculateMemorySimilarity: TRUE when it throws ValidationError
calculateMemorySimilarityThrows(state1, state2) == Len(state1) # Len(state2)
calculateMemorySimilarity(state1, state2) == cosineOf(state1, state2)

\* calculateEmbeddingSimilarity of eventService: 0 for embeddings of
\* different lengths, no error
calculateEmbeddingSimilarity(embedding1, embedding2) ==
  IF Len(embedding1) # Len(embedding2) THEN 0 ELSE cosineOf(embedding1, embedding2)

\* the default of the similarityThreshold parameter of detectEventClusters
\* and of the threshold parameter of clusterTexts
similarityThresholdDefault == 700
thresholdDefault == 700

\* the inner loop of detectEventClusters over all events from position k on;
\* st holds the cluster being built and the ids in `processed`
RECURSIVE absorbEvents(_, _, _, _, _)
absorbEvents(events, event, similarityThreshold, k, st) ==
  IF k > Len(events) THEN st
  ELSE LET other == events[k]
           similarity == calculateEmbeddingSimilarity(event.embedding, other.embedding)
       IN IF other.eventId \in st.processed
          THEN absorbEvents(events, event, similarityThreshold, k + 1, st)
          ELSE IF Ge(similarity, similarityThreshold)
          THEN absorbEvents(events, event, similarityThreshold, k + 1,
                 [cluster |-> Append(st.cluster, other),
                  processed |-> st.processed \cup {other.eventId}])
          ELSE absorbEvents(events, event, similarityThreshold, k + 1, st)

\* the outer loop of detectEventClusters from position k on
RECURSIVE clusterEvents(_, _, _, _)
clusterEvents(events, similarityThreshold, k, st) ==
  IF k > Len(events) THEN st.clusters
  ELSE LET event == events[k]
       IN IF event.eventId \in st.processed
          THEN clusterEvents(events, similarityThreshold, k + 1, st)
          ELSE LET inner == absorbEvents(events, event, similarityThreshold, 1,
                              [cluster |-> <<event>>,
                               processed |-> st.processed \cup {event.eventId}])
               IN clusterEvents(events, similarityThreshold, k + 1,
                    [clusters |-> Append(st.clusters, inner.cluster),
                     processed |-> inner.processed])

\* detectEventClusters; an Absent threshold is the omitted parameter
detectEventClusters(events, similarityThreshold) ==
  IF Len(events) = 0 THEN <<>>
  ELSE clusterEvents(events,
         IF similarityThreshold = Absent THEN similarityThresholdDefault
                                         ELSE similarityThreshold,
         1, [clusters |-> <<>>, processed |-> {}])

\* A text is the sequence of its character codes.
Space == 32

\* String.prototype.trim
RECURSIVE TrimLeft(_)
TrimLeft(text) ==
  IF text # <<>> /\ Head(text) = Space THEN TrimLeft(Tail(text)) ELSE text
RECURSIVE TrimRight(_)
TrimRight(text) ==
  IF text # <<>> /\ text[Len(text)] = Space
  THEN TrimRight(SubSeq(text, 1, Len(text) - 1)) ELSE text
Trim(text) == TrimRight(TrimLeft(text))

\* createEmbedding of semanticService: TRUE when it throws ValidationError
\* (an empty text, or one of white space only)
createTextEmbeddingThrows(text) == text = <<>> \/ Trim(text) = <<>>

\* hash = (hash << 5) - hash + char over the characters; the texts of the
\* model are short enough for the hash to stay within 32 bits
RECURSIVE TextHash(_, _)
TextHash(text, hash) ==
  IF text = <<>> THEN hash ELSE TextHash(Tail(text), hash * 32 - hash + Head(text))

\* createDeterministicEmbedding: coordinate i (from 0) is
\* sin(seed*0.1)*0.3 + cos(seed*0.05)*0.2 + sin(seed*0.02)*0.1 with
\* seed = hash + i, then the vector is divided by norm + 1e-8
createDeterministicEmbedding(text) ==
  LET hash == TextHash(text, 0)
      raw == [i \in 1..MEMORY_DIMENSION |->
                MulFP(Sin((hash + i - 1) * 100), 300)
                + MulFP(Cos((hash + i - 1) * 50), 200)
                + MulFP(Sin((hash + i - 1) * 20), 100)]
      norm == Norm(raw)
  IN [i \in 1..MEMORY_DIMENSION |->
        IF norm = 0 THEN 0 ELSE RoundDiv(raw[i] * Scale, norm)]

\* the embedding createEmbedding of semanticService returns for a text
createTextEmbedding(text) == createDeterministicEmbedding(Trim(text))

\* the inner loop of clusterTexts from position j on; st holds the cluster
\* being built and the indexes in `processed`
RECURSIVE absorbTexts(_, _, _, _, _)
absorbTexts(texts, i, threshold, j, st) ==
  IF j > Len(texts) THEN st
  ELSE LET similarity == calculateCosineSimilarity(createTextEmbedding(texts[i]),
                                                   createTextEmbedding(texts[j]))
       IN IF j \in st.processed
          THEN absorbTexts(texts, i, threshold, j + 1, st)
          ELSE IF Ge(similarity, threshold)
          THEN absorbTexts(texts, i, threshold, j + 1,
                 [cluster |-> Append(st.cluster, texts[j]),
                  processed |-> st.processed \cup {j}])
          ELSE absorbTexts(texts, i, threshold, j + 1, st)

\* the outer loop of clusterTexts from position i on
RECURSIVE clusterFrom(_, _, _, _)
clusterFrom(texts, threshold, i, st) ==
  IF i > Len(texts) THEN st.clusters
  ELSE IF i \in st.processed
  THEN clusterFrom(texts, threshold, i + 1, st)
  ELSE LET inner == absorbTexts(texts, i, threshold, i + 1,
                      [cluster |-> <<texts[i]>>, processed |-> st.processed \cup {i}])
       IN clusterFrom(texts, threshold, i + 1,
            [clusters |-> Append(st.clusters, inner.cluster),
             processed |-> inner.processed])

\* the threshold clusterTexts works with; an Absent one is the omitted parameter
thresholdOf(threshold) == IF threshold = Absent THEN thresholdDefault ELSE threshold

\* clusterTexts: TRUE when it rejects with ValidationError
clusterTextsThrows(texts, threshold) ==
  \/ Len(texts) = 0
  \/ Lt(thresholdOf(threshold), 0) \/ Gt(thresholdOf(threshold), Scale)
  \/ \E k \in DOMAIN texts : createTextEmbeddingThrows(texts[k])

clusterTexts(texts, threshold) ==
  clusterFrom(texts, thresholdOf(threshold), 1, [clusters |-> <<>>, processed |-> {}])

\* the fields of a ProcessedEvent that the clustering reads
ProcessedEvent(eventId, embedding) == [eventId |-> eventId, embedding |-> embedding]

\* the event lists tried: empty, one event, the same event twice, two close
\* events, two events with embeddings of two lengths, and four events with
\* unit embeddings of which evB is close to evC and to evD, evA is nearer to
\* evB than to the others, and evC is far from evD
EventLists ==
  LET evA == ProcessedEvent("evt_a", <<0, 800, 600>>)
      evB == ProcessedEvent("evt_b", <<0, 0, Scale>>)
      evC == ProcessedEvent("evt_c", <<600, 0, 800>>)
      evD == ProcessedEvent("evt_d", <<0 - 600, 0, 800>>)
      evShort == ProcessedEvent("evt_s", <<600, 800>>)
  IN {<<>>, <<evA>>, <<evA, evA>>, <<evA, evB, evC, evD>>, <<evB, evC>>,
      <<evA, evShort>>}
EventThresholds == {500, 800, Absent}

\* calculateEmbeddingDistance: the loop runs over the indexes of embedding1;
\* a coordinate that is missing or NaN makes the distance NaN
calculateEmbeddingDistance(embedding1, embedding2) ==
  IF \E i \in DOMAIN embedding1 : i \notin DOMAIN embedding2 \/ IsNaN(embedding2[i])
  THEN NaN
  ELSE Norm([i \in DOMAIN embedding1 |-> embedding1[i] - embedding2[i]])

\* detectAnomalies; an Absent anomalyThreshold is the omitted parameter (0.1).
\* avgEmbedding starts as MEMORY_DIMENSION zeros; a coordinate beyond them
\* that an event has is added to undefined, which gives NaN.
detectAnomalies(events, anomalyThreshold) ==
  LET threshold == IF anomalyThreshold = Absent THEN 100 ELSE anomalyThreshold
      n == Len(events)
      lengths == {MEMORY_DIMENSION} \cup {Len(events[k].embedding) : k \in 1..n}
      longest == CHOOSE l \in lengths : \A m \in lengths : m <= l
      avgEmbedding ==
        [i \in 1..longest |->
           IF i > MEMORY_DIMENSION THEN NaN
           ELSE RoundDiv(SumSeq([k \in 1..n |->
                           IF i \in DOMAIN events[k].embedding
                           THEN events[k].embedding[i] ELSE 0]), n)]
      distance(k) == calculateEmbeddingDistance(events[k].embedding, avgEmbedding)
      avgDistance ==
        IF \E k \in 1..n : IsNaN(distance(k)) THEN NaN
        ELSE RoundDiv(SumSeq([k \in 1..n |-> distance(k)]), n)
      anomalous(k) == Gt(distance(k), IF IsNaN(avgDistance) THEN NaN
                                      ELSE MulFP(avgDistance, Scale + threshold))
      flags == [k \in 1..n |-> anomalous(k)]
      RECURSIVE pick(_)
      pick(k) == IF k > n THEN <<>>
                 ELSE IF flags[k] THEN <<events[k]>> \o pick(k + 1) ELSE pick(k + 1)
  IN IF n < 2 THEN <<>> ELSE pick(1)

\* findMostSimilar: TRUE when it rejects with ValidationError (a query that
\* is empty, an empty candidate list, or createEmbedding rejecting the query
\* or a candidate)
findMostSimilarThrows(query, candidates) ==
  \/ query = <<>>
  \/ Len(candidates) = 0
  \/ createTextEmbeddingThrows(query)
  \/ \E k \in DOMAIN candidates : createTextEmbeddingThrows(candidates[k])

\* if (similarity > maxSimilarity)
replacesAlsoOnTie(similarity, maxSimilarity) == Ge(similarity, maxSimilarity)
replacesBest(similarity, maxSimilarity) == Gt(similarity, maxSimilarity)

\* the loop of findMostSimilar from candidate i (from 1) on; best holds
\* bestText, maxSimilarity and bestIndex (from 0)
RECURSIVE scanCandidates(_, _, _, _)
scanCandidates(queryEmbedding, candidates, i, best) ==
  IF i > Len(candidates) THEN best
  ELSE LET similarity == calculateCosineSimilarity(queryEmbedding,
                                                   createTextEmbedding(candidates[i]))
       IN scanCandidates(queryEmbedding, candidates, i + 1,
            IF replacesBest(similarity, best.similarity)
            THEN [text |-> candidates[i], similarity |-> similarity, index |-> i - 1]
            ELSE best)

findMostSimilar(query, candidates) ==
  scanCandidates(createTextEmbedding(query), candidates, 1,
                 [text |-> candidates[1], similarity |-> 0 - Scale, index |-> 0])

\* the text lists tried, of the texts "a", "b", "ab" and " ", and the
\* thresholds tried
TextLists ==
  LET TextA == <<97>>
      TextB == <<98>>
      TextAB == <<97, 98>>
      TextBlank == <<Space>>
  IN {<<>>, <<TextA>>, <<TextA, TextB, TextA>>, <<TextA, TextAB, TextB>>,
      <<TextA, TextBlank>>}
TextThresholds == {100, 900, 1500, Absent}

\* the queries of findMostSimilar ("a", "b", " " and the empty text) and its
\* candidate lists: those above, and one whose best candidates are its last two
SearchInputs ==
  {<<97>>, <<98>>, <<Space>>, <<>>} \X (TextLists \cup {<<<<98>>, <<97>>, <<97>>>>})

\* the event lists and thresholds of detectAnomalies: the lists above, and
\* three events with unit embeddings at 0, 30 and 90 degrees, of which the
\* first and the last are farther from the mean than the average
AnomalyInputs ==
  LET unit(x, y) == [i \in 1..MEMORY_DIMENSION |-> IF i = 1 THEN x ELSE IF i = 2 THEN y ELSE 0]
      spread == <<ProcessedEvent("evt_1", unit(Scale, 0)),
                  ProcessedEvent("evt_2", unit(866, 500)),
                  ProcessedEvent("evt_3", unit(0, Scale))>>
  IN (EventLists \cup {spread, SubSeq(spread, 1, 2)}) \X {10, 500, Absent}

\* the pairs of vectors whose similarity is asked for: of one length, of two
\* lengths, and with a zero vector
VectorPairs ==
  {<<<<0, 800, 600>>, <<0, 0, Scale>>>>, <<<<0, 800, 600>>, <<600, 800>>>>,
   <<<<0, 0, 0>>, <<0, 0, Scale>>>>}

(***************************************************************************)
(* identityService                                                         *)
(*                                                                         *)
(* config.PRIVACY_EPSILON and the epsilon of an operation are in units of  *)
(* 1/Scale; privacyEpsilon and privacyDelta of an encoded identity and     *)
(* config.PRIVACY_DELTA are in units of 1/MicroScale, so that the product  *)
(* of encodeIdentity is exact.                                             *)
(***************************************************************************)
\* PRIVACY_EPSILON and PRIVACY_DELTA are any positive numbers; 1.0 and
\* 0.00001 are the defaults
DEFAULT_PRIVACY_EPSILON == 1000
DEFAULT_PRIVACY_DELTA == 10
PrivacyEpsilons == {Scale \div 10, DEFAULT_PRIVACY_EPSILON, 2 * Scale}
PrivacyDeltas == {DEFAULT_PRIVACY_DELTA, Scale}

\* An IdentityInput.  data is a value of the given type ("object", "string"
\* or "absent"), and for an object the number of its keys and the hash of its
\* JSON text; privacyLevel is a string, or "absent" when it is not supplied.
IdentityInput(userId, userIdType, dataType, keys, hash, privacyLevel) ==
  [userId |-> userId, userIdType |-> userIdType, dataType |-> dataType,
   keys |-> keys, hash |-> hash, privacyLevel |-> privacyLevel]

PrivacyLevels == {"high", "medium", "low"}

\* validateIdentity: TRUE when it throws ValidationError.  An empty string is
\* falsy, so an empty privacyLevel is not looked at.
validateIdentityThrows(identity) ==
  \/ identity.userId = "" \/ identity.userIdType # "string"
  \/ identity.dataType # "object"
  \/ identity.keys = 0
  \/ ( /\ identity.privacyLevel # "absent" /\ identity.privacyLevel # ""
       /\ identity.privacyLevel \notin PrivacyLevels )

\* identity.privacyLevel || 'medium'
privacyLevelOf(identity) ==
  IF identity.privacyLevel = "absent" \/ identity.privacyLevel = ""
  THEN "medium" ELSE identity.privacyLevel

\* createIdentityEmbedding, from the hash of the JSON text of the data (data
\* is the identity, for its hash)
createIdentityEmbedding(data) ==
  LET raw == [i \in 1..MEMORY_DIMENSION |->
                MulFP(Sin((data.hash + i - 1) * 100), 300)
                + MulFP(Cos((data.hash + i - 1) * 50), 200)
                + MulFP(Sin((data.hash + i - 1) * 20), 100)]
      norm == Norm(raw)
  IN [i \in 1..MEMORY_DIMENSION |->
        IF norm = 0 THEN 0 ELSE RoundDiv(raw[i] * Scale, norm)]

\* calculateNoiseScale: sensitivity / adjustedEpsilon, where adjustedEpsilon
\* is epsilon / 3 (high), epsilon * 1.5 (low) or epsilon
calculateNoiseScale(privacyLevel, sensitivity, epsilon) ==
  IF privacyLevel = "high" THEN RoundDiv(3 * sensitivity * Scale, epsilon)
  ELSE IF privacyLevel = "low" THEN RoundDiv(2 * sensitivity * Scale, 3 * epsilon)
  ELSE RoundDiv(sensitivity * Scale, epsilon)

\* addLaplaceNoise: draw is the outcome of Math.log(u) * Math.sign(v): a
\* number, -Infinity or +Infinity when u is 0 (Math.log(0) is -Infinity), and
\* NaN when u is 0 and the sign is 0
addLaplaceNoise(value, scale, draw) ==
  IF IsNaN(draw) THEN NaN
  ELSE IF IsInfinite(draw) THEN draw
  ELSE value + MulFP(scale, draw)

\* applyDifferentialPrivacy: noise on every coordinate, then the division by
\* norm + 1e-8
applyDifferentialPrivacy(embedding, privacyLevel, epsilon, draws) ==
  LET noiseScale == calculateNoiseScale(privacyLevel, Scale, epsilon)
      noised == [i \in DOMAIN embedding |->
                   addLaplaceNoise(embedding[i], noiseScale, draws[i])]
      norm == IF \E i \in DOMAIN noised : IsNaN(noised[i]) THEN NaN
              ELSE IF \E i \in DOMAIN noised : IsInfinite(noised[i]) THEN PosInfinity
              ELSE Norm(noised)
  IN [noised |-> [i \in DOMAIN noised |->
                    IF IsNaN(norm) THEN NaN
                    ELSE IF norm = PosInfinity
                    THEN (IF IsInfinite(noised[i]) THEN NaN ELSE 0)
                    ELSE IF norm = 0 THEN 0
                    ELSE RoundDiv(noised[i] * Scale, norm)],
      noiseScale |-> noiseScale]

\* the epsilon encodeIdentity records: PRIVACY_EPSILON times 0.33, 1.5 or 1
actualEpsilonFlat(epsilon, privacyLevel) == epsilon * Scale
actualEpsilon(epsilon, privacyLevel) ==
  epsilon * (IF privacyLevel = "high" THEN 330
             ELSE IF privacyLevel = "low" THEN 1500 ELSE Scale)

\* encodeIdentity for an identity that passed validateIdentity (identityId
\* and createdAt are left out)
encodeIdentity(identity, draws, cfg) ==
  LET privacyLevel == privacyLevelOf(identity)
      private == applyDifferentialPrivacy(createIdentityEmbedding(identity),
                                          privacyLevel, cfg.PRIVACY_EPSILON, draws)
  IN [userId |-> identity.userId,
      embedding |-> private.noised,
      privacyEpsilon |-> actualEpsilon(cfg.PRIVACY_EPSILON, privacyLevel),
      privacyDelta |-> cfg.PRIVACY_DELTA,
      privacyLevel |-> privacyLevel,
      metadata |-> [dataFields |-> identity.keys,
                    embeddingNorm |->
                      IF \E i \in DOMAIN private.noised : IsNaN(private.noised[i])
                      THEN NaN ELSE Norm(private.noised),
                    noiseScale |-> private.noiseScale]]

\* Math.sqrt of a whole number, in units of 1/Scale
SqrtOfCount(n) == Sqrt(n * MicroScale)

\* calculatePrivacyLoss: epsilon * sqrt(queryCount)
calculatePrivacyLoss(queryCount, cfg) == MulFP(cfg.PRIVACY_EPSILON, SqrtOfCount(queryCount))

\* compareIdentities: TRUE when it throws ValidationError
compareNeverRejects(identity1, identity2) == FALSE
compareIdentitiesThrows(identity1, identity2) ==
  Len(identity1.embedding) # Len(identity2.embedding)

\* compareIdentities for embeddings of one length: every comparison is
\* charged as the first query
compareIdentities(identity1, identity2, cfg) ==
  [userId1 |-> identity1.userId,
   userId2 |-> identity2.userId,
   similarity |-> cosineOf(identity1.embedding, identity2.embedding),
   privacyLoss |-> calculatePrivacyLoss(1, cfg)]

\* the ceilings of verifyPrivacyGuarantees: 2.0 and 0.0001
maxEpsilon == 2000000
maxDelta == 100

\* Number.prototype.toFixed(digits) of a number in units of 1/MicroScale, as
\* the number of units of the last digit kept
ToFixed(x, digits) ==
  IF IsNaN(x) THEN NaN
  ELSE IF digits = 3 THEN RoundDiv(x, Scale)
  ELSE x

withinEpsilonOnly(epsilon, delta) == ~IsNaN(epsilon) /\ epsilon <= maxEpsilon
withinBounds(epsilon, delta) ==
  /\ ~IsNaN(epsilon) /\ epsilon <= maxEpsilon
  /\ ~IsNaN(delta) /\ delta <= maxDelta

\* verifyPrivacyGuarantees; the message is its leading words and the numbers
\* printed after them
verifyPrivacyGuarantees(identity) ==
  LET valid == withinBounds(identity.privacyEpsilon, identity.privacyDelta)
  IN [valid |-> valid,
      epsilon |-> identity.privacyEpsilon,
      delta |-> identity.privacyDelta,
      message |->
        [text |-> IF valid THEN "Privacy guarantees satisfied"
                           ELSE "Privacy guarantees violated",
         epsilon |-> ToFixed(identity.privacyEpsilon, 3),
         delta |-> ToFixed(identity.privacyDelta, 6)]]

\* ln 2
Ln2 == 693

\* Math.log of a number x >= 1 in units of 1/Scale: halving down to [1, 2),
\* then 2 * artanh((x - 1) / (x + 1)) by its series up to the fifth power
RECURSIVE Ln(_)
Ln(x) ==
  IF x >= 2 * Scale THEN Ln2 + Ln(RoundDiv(x, 2))
  ELSE LET y == RoundDiv((x - Scale) * Scale, x + Scale)
           y3 == MulFP(MulFP(y, y), y)
           y5 == MulFP(MulFP(y3, y), y)
       IN 2 * y + RoundDiv(2 * y3, 3) + RoundDiv(2 * y5, 5)

\* calculateAggregateLoss: sqrt(2 * ln(2 / delta)) * sqrt(sum of epsilon^2)
calculateAggregateLoss(operations, cfg) ==
  LET sumSquares == SumSeq([k \in DOMAIN operations |-> operations[k] * operations[k]])
      factor == Sqrt(2 * Ln(((2 * MicroScale) \div cfg.PRIVACY_DELTA) * Scale) * Scale)
  IN MulFP(factor, Sqrt(sumSquares))

\* a plain identity for each user
PlainIdentities ==
  {IdentityInput(u, "string", "object", 1, 700, "absent") : u \in Users}

\* the identities tried: the plain ones, one for each privacy level, and the
\* invalid ones: empty and non-string userId, missing and non-object data,
\* data without keys, an unknown and an empty privacyLevel
IdentityInputs ==
  PlainIdentities
  \cup
  {IdentityInput("u1", "string", "object", 2, 900, level) : level \in PrivacyLevels}
  \cup
  {IdentityInput("", "string", "object", 1, 700, "absent"),
   IdentityInput("u1", "number", "object", 1, 700, "absent"),
   IdentityInput("u1", "string", "absent", 0, 0, "absent"),
   IdentityInput("u1", "string", "string", 0, 0, "absent"),
   IdentityInput("u1", "string", "object", 0, 2, "absent"),
   IdentityInput("u1", "string", "object", 1, 700, "invalid"),
   IdentityInput("u1", "string", "object", 1, 700, "")}

\* outcomes of Math.log(u) * Math.sign(v) per coordinate: u = 0.5 with both
\* signs in alternation
LaplaceDraws ==
  {[i \in 1..MEMORY_DIMENSION |-> IF i % 2 = 1 THEN 0 - Ln2 ELSE Ln2]}

\* the outcomes at the ends of Math.random(): the first uniform draw is 0
\* with either sign or with the sign 0, and every sign is 0
ExtremeDraws ==
  {[i \in 1..MEMORY_DIMENSION |-> IF i = 1 THEN first ELSE Ln2]
     : first \in {NegInfinity, PosInfinity, NaN}}
  \cup {ConstVec(MEMORY_DIMENSION, 0)}

\* encoded identities built by hand, as a caller can pass them, and the pairs
\* of them that are compared: of two lengths in both orders, and of one length
MockIdentity(userId, embedding, epsilon, delta) ==
  [userId |-> userId, embedding |-> embedding, privacyEpsilon |-> epsilon,
   privacyDelta |-> delta, privacyLevel |-> "medium",
   metadata |-> [dataFields |-> 1, embeddingNorm |-> Norm(embedding),
                 noiseScale |-> Scale]]
MockPairs ==
  {<<MockIdentity("u1", ConstVec(MEMORY_DIMENSION, 500), MicroScale, DEFAULT_PRIVACY_DELTA),
     MockIdentity("u2", ConstVec(MEMORY_DIMENSION - 1, 500), MicroScale, DEFAULT_PRIVACY_DELTA)>>,
   <<MockIdentity("u2", ConstVec(MEMORY_DIMENSION - 1, 500), MicroScale, DEFAULT_PRIVACY_DELTA),
     MockIdentity("u1", ConstVec(MEMORY_DIMENSION, 500), MicroScale, DEFAULT_PRIVACY_DELTA)>>,
   <<MockIdentity("u1", ConstVec(MEMORY_DIMENSION, 500), MicroScale, DEFAULT_PRIVACY_DELTA),
     MockIdentity("u2", ConstVec(MEMORY_DIMENSION, 0 - 500), MicroScale, DEFAULT_PRIVACY_DELTA)>>}

\* identities given to verifyPrivacyGuarantees: on the two ceilings, just
\* above each of them, and with an epsilon that is NaN
VerifyInputs ==
  {MockIdentity("u1", <<>>, maxEpsilon, maxDelta),
   MockIdentity("u1", <<>>, maxEpsilon + 1, maxDelta),
   MockIdentity("u1", <<>>, maxEpsilon, maxDelta + 1),
   MockIdentity("u1", <<>>, NaN, DEFAULT_PRIVACY_DELTA)}

\* the number of operations of the composition that is looked at
CompositionLength == 10

\* the operation lists (their epsilons) given to calculateAggregateLoss
OperationLists ==
  {<<>>, <<100>>, <<100, 200>>, ConstVec(CompositionLength, 100),
   ConstVec(CompositionLength, Scale)}

(***************************************************************************)
(* State of the calls.                                                     *)
(***************************************************************************)
NoState ==
  [userId |-> "", dimension |-> 0, state |-> <<>>, eventCount |-> 0,
   significantEventCount |-> 0, totalLearningUpdates |-> 0]

NoEvent == EventInput("", "string", "string", 0, 0, "absent", Absent, Absent)

NoProcessed ==
  [userId |-> "", embedding |-> <<>>, significance |-> 0, threshold |-> 0,
   significant |-> FALSE, learningTriggered |-> FALSE]

NoResult ==
  [userId |-> "", updated |-> FALSE, memoryState |-> NoState, significance |-> 0,
   learningApplied |-> FALSE, stateChange |-> 0]

\* op: the function called; pc: idle, await, done or failed;
\* memoryState, decayedState, threshold: the locals of updateMemory;
\* events, index, batchState: the event list of batchUpdateMemory, the number
\* of its events whose updateMemory was called, and its local memoryState;
\* overlap: an updateMemory of the same user was in flight when the call was
\* made (history, not read by the program);
\* args, ret: the arguments and the return value of a call of the similarity,
\* clustering and identity functions and of the Promise.all batches;
\* results, settled: the array Promise.all fills, and the positions of the
\* promises that have resolved, in the order in which they did
IdleCall ==
  [op |-> "none", pc |-> "idle", userId |-> "", eventEmbedding |-> <<>>,
   significance |-> 0, memoryState |-> NoState, decayedState |-> <<>>,
   threshold |-> 0, result |-> NoResult, error |-> "none",
   event |-> NoEvent, processed |-> NoProcessed,
   events |-> <<>>, index |-> 0, batchState |-> NoState,
   overlap |-> FALSE,
   args |-> <<>>, ret |-> <<>>, results |-> <<>>, settled |-> <<>>]

CallIds == 1..MaxCalls

UpdatesOf(u) == {i \in CallIds : calls[i].op = "updateMemory" /\ calls[i].userId = u}
InFlight(u) == {i \in UpdatesOf(u) : calls[i].pc = "await"}
Completed(u) == {i \in UpdatesOf(u) : calls[i].pc = "done"}

Init ==
  /\ config \in [LEARNING_RATE : LearningRates,
                 PRIVACY_EPSILON : {DEFAULT_PRIVACY_EPSILON},
                 PRIVACY_DELTA : {DEFAULT_PRIVACY_DELTA}]
  /\ calls = [i \in CallIds |-> IdleCall]
  /\ issued = 0

\* the same under the default configuration
InitDefault ==
  /\ config = [LEARNING_RATE |-> DEFAULT_LEARNING_RATE,
               PRIVACY_EPSILON |-> DEFAULT_PRIVACY_EPSILON,
               PRIVACY_DELTA |-> DEFAULT_PRIVACY_DELTA]
  /\ calls = [i \in CallIds |-> IdleCall]
  /\ issued = 0

\* the same with the privacy parameters of the configuration left open
InitPrivacy ==
  /\ config \in [LEARNING_RATE : {DEFAULT_LEARNING_RATE},
                 PRIVACY_EPSILON : PrivacyEpsilons,
                 PRIVACY_DELTA : PrivacyDeltas]
  /\ calls = [i \in CallIds |-> IdleCall]
  /\ issued = 0

\* updateMemory from its entry to `await getMemoryState(userId)`
UpdateMemoryCall(u, emb, sig, noise) ==
  /\ issued < MaxCalls
  /\ issued' = issued + 1
  /\ calls' = [calls EXCEPT ![issued + 1] =
       IF updateMemoryRejects(emb, sig)
       THEN [IdleCall EXCEPT !.op = "updateMemory", !.pc = "failed", !.userId = u,
                             !.eventEmbedding = emb, !.significance = sig,
                             !.error = "ValidationError"]
       ELSE [IdleCall EXCEPT !.op = "updateMemory", !.pc = "await", !.userId = u,
                             !.eventEmbedding = emb, !.significance = sig,
                             !.memoryState = getMemoryState(u, noise),
                             !.overlap = InFlight(u) # {}]]
  /\ UNCHANGED config

\* updateMemory from the resumption after the await to its return
UpdateMemoryResume(i, timeDeltaMs) ==
  /\ calls[i].op = "updateMemory"
  /\ calls[i].pc = "await"
  /\ LET c == calls[i]
     IN calls' = [calls EXCEPT ![i] =
          [c EXCEPT !.pc = "done",
                    !.decayedState = applyTimeDecay(c.memoryState.state, timeDeltaMs),
                    !.threshold = updateThreshold,
                    !.result = updateMemoryResult(c.userId, c.memoryState,
                                 c.eventEmbedding, c.significance, timeDeltaMs, config)]]
  /\ UNCHANGED <<config, issued>>

\* getMemoryState called on its own
GetMemoryStateCall(u, noise) ==
  /\ issued < MaxCalls
  /\ issued' = issued + 1
  /\ calls' = [calls EXCEPT ![issued + 1] =
       [IdleCall EXCEPT !.op = "getMemoryState", !.pc = "done", !.userId = u,
                        !.memoryState = getMemoryState(u, noise),
                        !.overlap = InFlight(u) # {}]]
  /\ UNCHANGED config

\* getLearningMetrics: loads the state and reports its counters
GetLearningMetricsCall(u, noise) ==
  /\ issued < MaxCalls
  /\ issued' = issued + 1
  /\ calls' = [calls EXCEPT ![issued + 1] =
       [IdleCall EXCEPT !.op = "getLearningMetrics", !.pc = "done", !.userId = u,
                        !.memoryState = getMemoryState(u, noise),
                        !.ret = getLearningMetrics(u, getMemoryState(u, noise), config),
                        !.overlap = InFlight(u) # {}]]
  /\ UNCHANGED config

\* resetMemory: logs a warning and changes nothing
ResetMemoryCall(u) ==
  /\ issued < MaxCalls
  /\ issued' = issued + 1
  /\ calls' = [calls EXCEPT ![issued + 1] =
       [IdleCall EXCEPT !.op = "resetMemory", !.pc = "done", !.userId = u]]
  /\ UNCHANGED config

\* batchUpdateMemory from a resumption to its next await or its return: the
\* updateMemory call in flight (if any) returns, then the loop either calls
\* updateMemory for the next event or ends
batchStep(c, noise, timeDeltaMs, cfg) ==
  LET returned ==
        IF c.index = 0 THEN c
        ELSE LET r == updateMemoryResult(c.userId, c.memoryState, c.eventEmbedding,
                                         c.significance, timeDeltaMs, cfg)
             IN [c EXCEPT !.decayedState = applyTimeDecay(c.memoryState.state, timeDeltaMs),
                          !.threshold = updateThreshold,
                          !.result = r,
                          !.batchState = r.memoryState]
  IN IF returned.index = Len(returned.events)
     THEN [returned EXCEPT !.pc = "done"]
     ELSE LET ev == returned.events[returned.index + 1]
          IN IF updateMemoryRejects(ev[1], ev[2])
             THEN [returned EXCEPT !.pc = "failed", !.error = "ValidationError",
                                   !.index = returned.index + 1,
                                   !.eventEmbedding = ev[1], !.significance = ev[2]]
             ELSE [returned EXCEPT !.index = returned.index + 1,
                                   !.eventEmbedding = ev[1], !.significance = ev[2],
                                   !.memoryState = getMemoryState(returned.userId, noise)]

\* batchUpdateMemory from its entry to `await getMemoryState(userId)`
BatchUpdateMemoryCall(u, events, noise) ==
  /\ issued < MaxCalls
  /\ issued' = issued + 1
  /\ calls' = [calls EXCEPT ![issued + 1] =
       [IdleCall EXCEPT !.op = "batchUpdateMemory", !.pc = "await", !.userId = u,
                        !.events = events,
                        !.batchState = getMemoryState(u, noise)]]
  /\ UNCHANGED config

BatchUpdateMemoryResume(i, noise, timeDeltaMs) ==
  /\ calls[i].op = "batchUpdateMemory"
  /\ calls[i].pc = "await"
  /\ calls' = [calls EXCEPT ![i] = batchStep(calls[i], noise, timeDeltaMs, config)]
  /\ UNCHANGED <<config, issued>>

\* processEvent: no call of it depends on any other, each runs to its end
ProcessEventCall(event) ==
  /\ issued < MaxCalls
  /\ issued' = issued + 1
  /\ calls' = [calls EXCEPT ![issued + 1] =
       IF validateEventThrows(event)
       THEN [IdleCall EXCEPT !.op = "processEvent", !.pc = "failed",
                             !.userId = event.userId, !.event = event,
                             !.error = "ValidationError"]
       ELSE [IdleCall EXCEPT !.op = "processEvent", !.pc = "done",
                             !.userId = event.userId, !.event = event,
                             !.processed = processEventResult(event)]]
  /\ UNCHANGED config

\* updateMemory for the given users, arguments, draws and clock readings
UpdateMemory(users, inputs, noises, deltas) ==
  \/ \E u \in users, inp \in inputs, noise \in noises :
       UpdateMemoryCall(u, inp[1], inp[2], noise)
  \/ \E i \in CallIds, dt \in deltas : UpdateMemoryResume(i, dt)

\* the memory service, one update at a time or several in flight
Next ==
  \/ UpdateMemory(Users, UpdateInputs, UpdateNoise, TimeDeltas)
  \/ \E u \in Users, noise \in NoiseVectors : GetMemoryStateCall(u, noise)
  \/ \E u \in Users : ResetMemoryCall(u)

Spec == Init /\ [][Next]_vars

\* the batch update of a user next to single updates and reads
NextBatch ==
  \/ \E events \in BatchInputs, noise \in UpdateNoise :
       BatchUpdateMemoryCall(BatchUser, events, noise)
  \/ \E i \in CallIds, noise \in UpdateNoise, dt \in BatchTimeDeltas :
       BatchUpdateMemoryResume(i, noise, dt)
  \/ UpdateMemory(Users, BatchEvents, UpdateNoise, BatchTimeDeltas)
  \/ \E u \in Users, noise \in UpdateNoise : GetMemoryStateCall(u, noise)
  \/ \E u \in Users, noise \in UpdateNoise : GetLearningMetricsCall(u, noise)

SpecBatch == Init /\ [][NextBatch]_vars

\* the significance decision: the event service next to updateMemory
NextDecision ==
  \/ UpdateMemory(Users, UpdateInputs, UpdateNoise, BatchTimeDeltas)
  \/ \E event \in EventInputs : ProcessEventCall(event)

SpecDecision == Init /\ [][NextDecision]_vars

\* the slot of a call that ran from its entry to its end: it returned ret, or
\* threw ValidationError when rejects holds
Ran(op, userId, args, rejects, ret) ==
  IF rejects
  THEN [IdleCall EXCEPT !.op = op, !.pc = "failed", !.userId = userId,
                        !.args = args, !.error = "ValidationError"]
  ELSE [IdleCall EXCEPT !.op = op, !.pc = "done", !.userId = userId,
                        !.args = args, !.ret = ret]

DetectEventClustersCall(events, similarityThreshold) ==
  /\ issued < MaxCalls
  /\ issued' = issued + 1
  /\ calls' = [calls EXCEPT ![issued + 1] =
       Ran("detectEventClusters", "",
           [events |-> events, similarityThreshold |-> similarityThreshold],
           FALSE, detectEventClusters(events, similarityThreshold))]
  /\ UNCHANGED config

\* clusterTexts: nothing else runs between its steps and no step of it reads
\* anything but its arguments
ClusterTextsCall(texts, threshold) ==
  /\ issued < MaxCalls
  /\ issued' = issued + 1
  /\ calls' = [calls EXCEPT ![issued + 1] =
       Ran("clusterTexts", "", [texts |-> texts, threshold |-> threshold],
           clusterTextsThrows(texts, threshold),
           IF clusterTextsThrows(texts, threshold) THEN <<>>
           ELSE clusterTexts(texts, threshold))]
  /\ UNCHANGED config

CalculateCosineSimilarityCall(vec1, vec2) ==
  /\ issued < MaxCalls
  /\ issued' = issued + 1
  /\ calls' = [calls EXCEPT ![issued + 1] =
       Ran("calculateCosineSimilarity", "", [vec1 |-> vec1, vec2 |-> vec2],
           calculateCosineSimilarityThrows(vec1, vec2),
           IF calculateCosineSimilarityThrows(vec1, vec2) THEN <<>>
           ELSE <<calculateCosineSimilarity(vec1, vec2)>>)]
  /\ UNCHANGED config

CalculateMemorySimilarityCall(state1, state2) ==
  /\ issued < MaxCalls
  /\ issued' = issued + 1
  /\ calls' = [calls EXCEPT ![issued + 1] =
       Ran("calculateMemorySimilarity", "", [vec1 |-> state1, vec2 |-> state2],
           calculateMemorySimilarityThrows(state1, state2),
           IF calculateMemorySimilarityThrows(state1, state2) THEN <<>>
           ELSE <<calculateMemorySimilarity(state1, state2)>>)]
  /\ UNCHANGED config

\* similarity and clustering
NextCluster ==
  \/ \E events \in EventLists, threshold \in EventThresholds :
       DetectEventClustersCall(events, threshold)
  \/ \E texts \in TextLists, threshold \in TextThresholds :
       ClusterTextsCall(texts, threshold)
  \/ \E pair \in VectorPairs : CalculateCosineSimilarityCall(pair[1], pair[2])
  \/ \E pair \in VectorPairs : CalculateMemorySimilarityCall(pair[1], pair[2])

SpecCluster == Init /\ [][NextCluster]_vars

FindMostSimilarCall(query, candidates) ==
  /\ issued < MaxCalls
  /\ issued' = issued + 1
  /\ calls' = [calls EXCEPT ![issued + 1] =
       Ran("findMostSimilar", "", [query |-> query, candidates |-> candidates],
           findMostSimilarThrows(query, candidates),
           IF findMostSimilarThrows(query, candidates) THEN <<>>
           ELSE findMostSimilar(query, candidates))]
  /\ UNCHANGED config

\* detectAnomalies never throws
DetectAnomaliesCall(events, anomalyThreshold) ==
  /\ issued < MaxCalls
  /\ issued' = issued + 1
  /\ calls' = [calls EXCEPT ![issued + 1] =
       Ran("detectAnomalies", "",
           [events |-> events, anomalyThreshold |-> anomalyThreshold],
           FALSE, detectAnomalies(events, anomalyThreshold))]
  /\ UNCHANGED config

\* the searches: the most similar text and the anomalies
NextSearch ==
  \/ \E input \in SearchInputs : FindMostSimilarCall(input[1], input[2])
  \/ \E input \in AnomalyInputs : DetectAnomaliesCall(input[1], input[2])

SpecSearch == InitDefault /\ [][NextSearch]_vars

\* the encoded identities that completed encodeIdentity calls returned
Encoded == {calls[i].ret : i \in {j \in CallIds : calls[j].op = "encodeIdentity"
                                                  /\ calls[j].pc = "done"}}

\* encodeIdentity: it has no await, so it runs to its end
EncodeIdentityCall(identity, draws) ==
  /\ issued < MaxCalls
  /\ issued' = issued + 1
  /\ calls' = [calls EXCEPT ![issued + 1] =
       Ran("encodeIdentity", identity.userId, identity,
           validateIdentityThrows(identity),
           IF validateIdentityThrows(identity) THEN <<>>
           ELSE encodeIdentity(identity, draws, config))]
  /\ UNCHANGED config

CompareIdentitiesCall(identity1, identity2) ==
  /\ issued < MaxCalls
  /\ issued' = issued + 1
  /\ calls' = [calls EXCEPT ![issued + 1] =
       Ran("compareIdentities", identity1.userId,
           [identity1 |-> identity1, identity2 |-> identity2],
           compareIdentitiesThrows(identity1, identity2),
           IF compareIdentitiesThrows(identity1, identity2) THEN <<>>
           ELSE compareIdentities(identity1, identity2, config))]
  /\ UNCHANGED config

VerifyPrivacyGuaranteesCall(identity) ==
  /\ issued < MaxCalls
  /\ issued' = issued + 1
  /\ calls' = [calls EXCEPT ![issued + 1] =
       Ran("verifyPrivacyGuarantees", identity.userId, identity,
           FALSE, verifyPrivacyGuarantees(identity))]
  /\ UNCHANGED config

CalculateAggregateLossCall(operations) ==
  /\ issued < MaxCalls
  /\ issued' = issued + 1
  /\ calls' = [calls EXCEPT ![issued + 1] =
       Ran("calculateAggregateLoss", "", operations,
           FALSE, <<calculateAggregateLoss(operations, config)>>)]
  /\ UNCHANGED config

\* the identity service: identities are encoded, and encoded identities (the
\* returned ones and ones built by hand) are compared and verified
NextIdentity ==
  \/ \E identity \in IdentityInputs, draws \in LaplaceDraws :
       EncodeIdentityCall(identity, draws)
  \/ \E identity \in PlainIdentities, draws \in ExtremeDraws :
       EncodeIdentityCall(identity, draws)
  \/ \E pair \in MockPairs \cup (Encoded \X Encoded) :
       CompareIdentitiesCall(pair[1], pair[2])
  \/ \E identity \in VerifyInputs \cup Encoded : VerifyPrivacyGuaranteesCall(identity)
  \/ \E operations \in OperationLists : CalculateAggregateLossCall(operations)

SpecIdentity == InitPrivacy /\ [][NextIdentity]_vars

\* The array of Promise.all: one place for each promise, empty until the
\* promise resolves, and filled at the place of the promise, whenever that is.
pendingResults(n) == [k \in 1..n |-> <<>>]
placeInCompletionOrder(results, k, value) ==
  LET free == CHOOSE j \in DOMAIN results :
                results[j] = <<>> /\ \A m \in 1..(j - 1) : results[m] # <<>>
  IN [results EXCEPT ![free] = <<value>>]
placeResult(results, k, value) == [results EXCEPT ![k] = <<value>>]
resolvedValues(results) == [k \in DOMAIN results |-> results[k][1]]

\* the function a batch maps over its items, processEvent or encodeIdentity:
\* whether it rejects the item, and what it returns for it
itemNeverRejects(op, item) == FALSE
itemRejects(op, item) ==
  IF op = "batchProcessEvents" THEN validateEventThrows(item)
                               ELSE validateIdentityThrows(item)
itemResult(op, item, draws, cfg) ==
  IF op = "batchProcessEvents" THEN processEventResult(item)
                               ELSE encodeIdentity(item, draws, cfg)

\* the batches tried: for every length up to MaxBatch a list of valid items
\* of alternating users and of different contents, and a list whose second
\* item is invalid
BatchEventLists ==
  {[k \in 1..n |-> EventInput(IF k % 2 = 1 THEN "u1" ELSE "u2", "string", "string",
                              20 + k, 2000 + 100 * k, "absent", Absent, Absent)]
     : n \in 0..MaxBatch}
  \cup {<<EventInput("u1", "string", "string", 28, 2800, "absent", Absent, Absent),
          EventInput("u2", "string", "string", 3, 300, "absent", Absent, Absent)>>}
BatchIdentityLists ==
  {[k \in 1..n |-> IdentityInput(IF k % 2 = 1 THEN "u1" ELSE "u2", "string", "object",
                                 k, 700 + k, "absent")]
     : n \in 0..MaxBatch}
  \cup {<<IdentityInput("u1", "string", "object", 1, 700, "absent"),
          IdentityInput("u2", "string", "object", 0, 2, "absent")>>}

\* the slot of a batch that has mapped its function over the items and
\* awaits Promise.all (which resolves at once for no items)
batchStarted(op, items) ==
  [IdleCall EXCEPT !.op = op, !.pc = IF Len(items) = 0 THEN "done" ELSE "await",
                   !.args = items, !.results = pendingResults(Len(items))]

\* batchProcessEvents from its entry to `await Promise.all(...)`
BatchProcessEventsCall(events) ==
  /\ issued < MaxCalls
  /\ issued' = issued + 1
  /\ calls' = [calls EXCEPT ![issued + 1] = batchStarted("batchProcessEvents", events)]
  /\ UNCHANGED config

\* batchEncodeIdentities from its entry to `await Promise.all(...)`
BatchEncodeIdentitiesCall(identities) ==
  /\ issued < MaxCalls
  /\ issued' = issued + 1
  /\ calls' = [calls EXCEPT ![issued + 1] =
       batchStarted("batchEncodeIdentities", identities)]
  /\ UNCHANGED config

\* the promise of item k of batch i settles, in whatever order the promises
\* do: a rejection rejects Promise.all and with it the batch; a value goes to
\* its place, and with the last value the batch returns the array
PromiseSettles(i, k, draws) ==
  /\ calls[i].op \in {"batchProcessEvents", "batchEncodeIdentities"}
  /\ calls[i].pc = "await"
  /\ k \in DOMAIN calls[i].args
  /\ \A m \in DOMAIN calls[i].settled : calls[i].settled[m] # k
  /\ LET c == calls[i]
         results == placeResult(c.results, k, itemResult(c.op, c.args[k], draws, config))
         last == Len(c.settled) + 1 = Len(c.args)
     IN calls' = [calls EXCEPT ![i] =
          IF itemRejects(c.op, c.args[k])
          THEN [c EXCEPT !.pc = "failed", !.error = "ValidationError"]
          ELSE [c EXCEPT !.results = results,
                         !.settled = Append(c.settled, k),
                         !.pc = IF last THEN "done" ELSE "await",
                         !.ret = IF last THEN resolvedValues(results) ELSE <<>>]]
  /\ UNCHANGED <<config, issued>>

\* the Promise.all batches of the event and of the identity service
NextOrder ==
  \/ \E events \in BatchEventLists : BatchProcessEventsCall(events)
  \/ \E identities \in BatchIdentityLists : BatchEncodeIdentitiesCall(identities)
  \/ \E i \in CallIds, k \in 1..MaxBatch, draws \in LaplaceDraws : PromiseSettles(i, k, draws)

SpecOrder == InitDefault /\ [][NextOrder]_vars

TypeOK ==
  /\ issued \in 0..MaxCalls
  /\ config.LEARNING_RATE \in LearningRates
  /\ \A i \in CallIds :
       /\ calls[i].pc \in {"idle", "await", "done", "failed"}
       /\ calls[i].op \in {"none", "updateMemory", "getMemoryState", "resetMemory",
                           "batchUpdateMemory", "processEvent", "getLearningMetrics",
                           "detectEventClusters", "clusterTexts",
                           "calculateCosineSimilarity", "calculateMemorySimilarity",
                           "findMostSimilar", "detectAnomalies",
                           "encodeIdentity", "compareIdentities",
                           "verifyPrivacyGuarantees", "calculateAggregateLoss",
                           "batchProcessEvents", "batchEncodeIdentities"}
       /\ (i > issued) = (calls[i].pc = "idle")

(***************************************************************************)
(* Properties.                                                             *)
(***************************************************************************)
UpdateCalls == {i \in CallIds : calls[i].op = "updateMemory"}
DoneUpdates == {i \in UpdateCalls : calls[i].pc = "done"}
GetCalls == {i \in CallIds : calls[i].op = "getMemoryState"}
EventCalls == {i \in CallIds : calls[i].op = "processEvent"}
BatchCalls == {i \in CallIds : calls[i].op = "batchUpdateMemory"}

\* a number of [0,1]
InUnit(x) == ~IsNaN(x) /\ 0 <= x /\ x <= Scale
\* the arguments of call i are valid
ValidArgs(i) ==
  InUnit(calls[i].significance) /\ Len(calls[i].eventEmbedding) = MEMORY_DIMENSION
\* all updateMemory calls of user u so far had valid arguments and each was
\* made when none of the others was in flight
OneAfterAnother(u) == \A i \in UpdatesOf(u) : ValidArgs(i) /\ ~calls[i].overlap
\* the completed updateMemory calls of the user of call i made before it
Earlier(i) == {j \in Completed(calls[i].userId) : j < i}
AtOrAbove(i) == calls[i].significance >= SIGNIFICANCE_THRESHOLD

\* rounding allowance of the fixed-point arithmetic on a vector
Tolerance == 2 * MEMORY_DIMENSION

\* C1: for valid updateMemory calls made one after another for one user, the
\* state returned by the k-th call has eventCount = k and
\* significantEventCount = the number of those k calls whose significance
\* was at or above the threshold.
C1_CountsFollowCalls ==
  \A i \in DoneUpdates :
    OneAfterAnother(calls[i].userId) =>
      /\ calls[i].result.memoryState.eventCount = Cardinality(Earlier(i)) + 1
      /\ calls[i].result.memoryState.significantEventCount =
           Cardinality({j \in Earlier(i) \cup {i} : AtOrAbove(j)})

\* C2: when several updateMemory calls of one user were in flight together
\* and all have completed, no update is lost: the user's eventCount (the
\* largest one returned) is the number of calls.
C2_NoLostUpdate ==
  \A u \in Users :
    ( /\ \A i \in UpdatesOf(u) : ValidArgs(i) /\ calls[i].pc = "done"
      /\ \E i \in UpdatesOf(u) : calls[i].overlap )
    => \E i \in UpdatesOf(u) :
         calls[i].result.memoryState.eventCount = Cardinality(UpdatesOf(u))

\* C3: after every successful updateMemory call, significant or not, the
\* vector of the returned state has Euclidean norm 1 within the tolerance.
C3_UnitNorm ==
  \A i \in DoneUpdates :
    Abs(Norm(calls[i].result.memoryState.state) - Scale) <= Tolerance

\* C4: an updateMemory call with significance strictly below the threshold
\* returns eventCount one greater than the loaded state, significantEventCount
\* and totalLearningUpdates unchanged, state change 0, updated and
\* learningApplied false, and exactly the time-decayed vector.
C4_BelowThresholdFrame ==
  \A i \in DoneUpdates :
    Lt(calls[i].significance, SIGNIFICANCE_THRESHOLD) =>
      LET loaded == calls[i].memoryState
          r == calls[i].result
      IN /\ r.memoryState.eventCount = loaded.eventCount + 1
         /\ r.memoryState.significantEventCount = loaded.significantEventCount
         /\ r.memoryState.totalLearningUpdates = loaded.totalLearningUpdates
         /\ r.stateChange = 0
         /\ ~r.updated /\ ~r.learningApplied
         /\ r.memoryState.state = calls[i].decayedState

\* an insignificant update has returned, and the decay changed the vector
C4_Witness ==
  \E i \in DoneUpdates :
    /\ Lt(calls[i].significance, SIGNIFICANCE_THRESHOLD)
    /\ calls[i].decayedState # calls[i].memoryState.state
    /\ calls[i].result.memoryState.eventCount = 1

\* C5: the threshold significance is compared against is per user, starts at
\* 0.5, stays in [0,1] and follows theta' = (1-alpha)*theta + alpha*score for
\* some alpha of (0,1] over the user's processed scores, so the threshold of a
\* later event depends on the earlier scores.
C5_AdaptiveThreshold ==
  \A i \in DoneUpdates :
    OneAfterAnother(calls[i].userId) =>
      /\ InUnit(calls[i].threshold)
      /\ Earlier(i) = {} => calls[i].threshold = 500
      /\ \A j \in Earlier(i) :
           (\A k \in Earlier(i) : k <= j) =>
             \E alpha \in 1..Scale :
               calls[i].threshold * Scale =
                 (Scale - alpha) * calls[j].threshold + alpha * calls[j].significance

C7_RejectsInvalid ==
  \A i \in UpdateCalls :
    ~ValidArgs(i) =>
      /\ calls[i].pc = "failed"
      /\ calls[i].error = "ValidationError"
      /\ calls[i].memoryState = NoState
      /\ calls[i].result = NoResult

\* C8: in every MemoryState produced by initializeMemory, getMemoryState,
\* updateMemory or batchUpdateMemory, significantEventCount <= eventCount.
C8_SignificantAtMostEvents ==
  \A i \in CallIds :
    /\ calls[i].memoryState.significantEventCount <= calls[i].memoryState.eventCount
    /\ calls[i].result.memoryState.significantEventCount
         <= calls[i].result.memoryState.eventCount
    /\ calls[i].batchState.significantEventCount <= calls[i].batchState.eventCount

\* a batch of two events has returned a state that counts a significant event
C8_Witness ==
  \E i \in BatchCalls :
    /\ calls[i].pc = "done"
    /\ calls[i].index = 2
    /\ calls[i].batchState.significantEventCount = 1
    /\ calls[i].batchState.eventCount = 1

\* C9: two getMemoryState calls for the same user with no update or reset in
\* between return the same vector and the same counters.
C9_ReadDeterministic ==
  \A i \in GetCalls, j \in GetCalls :
    ( /\ i < j
      /\ calls[i].userId = calls[j].userId
      /\ ~calls[i].overlap /\ ~calls[j].overlap
      /\ \A k \in CallIds :
           (i < k /\ k < j /\ calls[k].userId = calls[i].userId)
             => calls[k].op = "getMemoryState" )
    => calls[i].memoryState = calls[j].memoryState

\* C10: whenever updateMemory applies learning, the state change it reports
\* and the distance between the stored and the decayed vector are at most
\* GRADIENT_CLIP_NORM (plus tolerance).
C10_StepCapped ==
  \A i \in DoneUpdates :
    calls[i].result.updated =>
      /\ calls[i].result.stateChange <= GRADIENT_CLIP_NORM + Tolerance
      /\ calculateStateChange(calls[i].decayedState, calls[i].result.memoryState.state)
           <= GRADIENT_CLIP_NORM + Tolerance

DoneCalls(op) == {i \in CallIds : calls[i].op = op /\ calls[i].pc = "done"}
CallsOf(op) == {i \in CallIds : calls[i].op = op}
Rejected(i) == calls[i].pc = "failed" /\ calls[i].error = "ValidationError"

\* the concatenation of the clusters
RECURSIVE Flatten(_)
Flatten(clusters) ==
  IF clusters = <<>> THEN <<>> ELSE Head(clusters) \o Flatten(Tail(clusters))
\* how often x occurs in the list
Occurrences(list, x) == Cardinality({k \in DOMAIN list : list[k] = x})
\* every item is in the clusters as often as in the list, and the sizes of
\* the clusters add up to the length of the list
PartitionsExactly(items, clusters) ==
  /\ Len(Flatten(clusters)) = Len(items)
  /\ \A k \in DOMAIN items :
       Occurrences(Flatten(clusters), items[k]) = Occurrences(items, items[k])

\* C11: clustering partitions its input exactly: for every list given to
\* detectEventClusters or clusterTexts, also one in which items repeat, each
\* input element is in exactly one cluster and the cluster sizes sum to the
\* length of the input.
C11_ClusteringPartitions ==
  /\ \A i \in DoneCalls("detectEventClusters") :
       PartitionsExactly(calls[i].args.events, calls[i].ret)
  /\ \A i \in DoneCalls("clusterTexts") :
       PartitionsExactly(calls[i].args.texts, calls[i].ret)

\* the threshold a clustering call worked with
EffectiveThreshold(i) ==
  IF calls[i].op = "clusterTexts" THEN thresholdOf(calls[i].args.threshold)
  ELSE IF calls[i].args.similarityThreshold = Absent THEN similarityThresholdDefault
  ELSE calls[i].args.similarityThreshold
ClusteredItems(i) ==
  IF calls[i].op = "clusterTexts" THEN calls[i].args.texts ELSE calls[i].args.events

\* C12: clustering is monotonic in the threshold: for the same items in the
\* same order and thresholds t1 <= t2, the clustering at t2 has at least as
\* many clusters as the clustering at t1.
C12_MonotonicInThreshold ==
  \A op \in {"detectEventClusters", "clusterTexts"} :
    \A i \in DoneCalls(op), j \in DoneCalls(op) :
      ( /\ ClusteredItems(i) = ClusteredItems(j)
        /\ EffectiveThreshold(i) <= EffectiveThreshold(j) )
      => Len(calls[i].ret) <= Len(calls[j].ret)

\* detectEventClusters compares the first event with an event whose
\* embedding has another length: the first event with such an embedding
\* (no earlier event has its id, so the loop does not skip it)
ComparesUnequalLengths(events) ==
  \E k \in DOMAIN events :
    /\ Len(events[k].embedding) # Len(events[1].embedding)
    /\ \A m \in 1..(k - 1) : events[m].eventId # events[k].eventId

\* C13: every cosine similarity fails with the dimension-mismatch
\* ValidationError when its two vectors differ in length and returns no
\* number: calculateCosineSimilarity, calculateMemorySimilarity and the
\* similarity used inside detectEventClusters.
C13_MismatchRejected ==
  /\ \A i \in CallsOf("calculateCosineSimilarity") \cup CallsOf("calculateMemorySimilarity") :
       Len(calls[i].args.vec1) # Len(calls[i].args.vec2)
         => Rejected(i) /\ calls[i].ret = <<>>
  /\ \A i \in CallsOf("detectEventClusters") :
       ComparesUnequalLengths(calls[i].args.events) => Rejected(i)

\* C14: compareIdentities raises the dimension-mismatch ValidationError
\* whenever the embeddings of the two identities differ in length, and then
\* returns neither a similarity nor a privacy loss.
C14_CompareRejectsMismatch ==
  \A i \in CallsOf("compareIdentities") :
    Len(calls[i].args.identity1.embedding) # Len(calls[i].args.identity2.embedding)
      => Rejected(i) /\ calls[i].ret = <<>>

\* a comparison of a longer with a shorter embedding was rejected
C14_Witness ==
  \E i \in CallsOf("compareIdentities") :
    /\ Len(calls[i].args.identity1.embedding) > Len(calls[i].args.identity2.embedding)
    /\ Rejected(i)
    /\ calls[i].ret = <<>>

\* privacy level a is stricter than privacy level b
Stricter(a, b) ==
  \/ a = "high" /\ b \in {"medium", "low"}
  \/ a = "medium" /\ b = "low"

\* C15: for any positive configured base epsilon, the privacyEpsilon that
\* encodeIdentity records is strictly ordered by the privacy level:
\* epsilon(high) < epsilon(medium) < epsilon(low).
C15_EpsilonOrdered ==
  \A i \in DoneCalls("encodeIdentity"), j \in DoneCalls("encodeIdentity") :
    Stricter(calls[i].ret.privacyLevel, calls[j].ret.privacyLevel)
      => calls[i].ret.privacyEpsilon < calls[j].ret.privacyEpsilon

\* an identity was encoded at level high and at level medium under a base
\* epsilon that is not the default, and the first epsilon is the smaller one
C15_Witness ==
  \E i \in DoneCalls("encodeIdentity"), j \in DoneCalls("encodeIdentity") :
    /\ config.PRIVACY_EPSILON # DEFAULT_PRIVACY_EPSILON
    /\ calls[i].args.privacyLevel = "high"
    /\ calls[j].args.privacyLevel = "medium"
    /\ calls[i].ret.privacyEpsilon < calls[j].ret.privacyEpsilon

\* C16: the aggregate privacy loss composes sub-linearly:
\* calculateAggregateLoss of 10 operations of one epsilon > 0 is strictly
\* less than 10 times that epsilon, with the configured delta.
C16_SubLinearComposition ==
  \A i \in DoneCalls("calculateAggregateLoss") :
    LET operations == calls[i].args
    IN ( /\ Len(operations) = CompositionLength
         /\ \A k \in DOMAIN operations : operations[k] = operations[1]
         /\ operations[1] > 0 )
       => calls[i].ret[1] < CompositionLength * operations[1]

\* the users of the two identities of a comparison
ComparedUsers(i) == {calls[i].args.identity1.userId, calls[i].args.identity2.userId}
\* the privacy-consuming operations on user u up to call j: the identities of
\* u that were encoded and the comparisons u's identities were part of
Charged(u, j) ==
  {k \in DoneCalls("encodeIdentity") : k <= j /\ calls[k].userId = u}
  \cup {k \in DoneCalls("compareIdentities") : k <= j /\ u \in ComparedUsers(k)}

\* C17: every privacy-consuming operation on a user is added to that user's
\* ledger and the reported aggregate is the composition of all charges: a
\* comparison never reports less than an earlier one on the same user, and
\* one that is not the user's first charged operation reports more than the
\* loss of a single comparison.
C17_LedgerAccumulates ==
  \A j \in DoneCalls("compareIdentities") :
    \A u \in ComparedUsers(j) :
      /\ \A i \in DoneCalls("compareIdentities") :
           (i < j /\ u \in ComparedUsers(i))
             => calls[i].ret.privacyLoss <= calls[j].ret.privacyLoss
      /\ Cardinality(Charged(u, j)) >= 2
           => calls[j].ret.privacyLoss > calculatePrivacyLoss(1, config)

\* C18: verifyPrivacyGuarantees returns valid = true exactly when
\* privacyEpsilon <= 2.0 and privacyDelta <= 0.0001, its message says
\* 'satisfied' if and only if valid is true and 'violated' otherwise, and
\* the epsilon and delta it returns are those of the identity.
C18_VerifyBounds ==
  \A i \in DoneCalls("verifyPrivacyGuarantees") :
    LET identity == calls[i].args
        verification == calls[i].ret
    IN /\ verification.valid =
            ( /\ ~IsNaN(identity.privacyEpsilon)
              /\ identity.privacyEpsilon <= 2 * MicroScale
              /\ ~IsNaN(identity.privacyDelta)
              /\ identity.privacyDelta * 10000 <= MicroScale )
       /\ (verification.message.text = "Privacy guarantees satisfied") = verification.valid
       /\ (verification.message.text = "Privacy guarantees violated") = ~verification.valid
       /\ verification.epsilon = identity.privacyEpsilon
       /\ verification.delta = identity.privacyDelta

\* an identity on both ceilings was found valid and one with a delta just
\* above its ceiling was found in violation
C18_Witness ==
  \E i \in DoneCalls("verifyPrivacyGuarantees"), j \in DoneCalls("verifyPrivacyGuarantees") :
    /\ calls[i].args.privacyEpsilon = 2 * MicroScale
    /\ calls[i].args.privacyDelta * 10000 = MicroScale
    /\ calls[i].ret.valid
    /\ calls[j].args.privacyEpsilon = 2 * MicroScale
    /\ calls[j].args.privacyDelta * 10000 > MicroScale
    /\ ~calls[j].ret.valid
    /\ calls[j].ret.message.text = "Privacy guarantees violated"

\* C19: encodeIdentity rejects with ValidationError when userId is empty or
\* not a string, when data is missing, not an object or without keys, or when
\* a privacyLevel is supplied that is not 'high', 'medium' or 'low'; only when
\* privacyLevel is not supplied is the identity encoded at 'medium' by default.
C19_EncodeValidates ==
  \A i \in CallsOf("encodeIdentity") :
    LET identity == calls[i].args
    IN /\ ( \/ identity.userId = "" \/ identity.userIdType # "string"
            \/ identity.dataType # "object" \/ identity.keys = 0
            \/ ( /\ identity.privacyLevel # "absent"
                 /\ identity.privacyLevel \notin {"high", "medium", "low"} ) )
          => Rejected(i)
       /\ ( /\ calls[i].pc = "done"
            /\ calls[i].ret.privacyLevel = "medium"
            /\ identity.privacyLevel # "medium" )
          => identity.privacyLevel = "absent"

\* C20: batchProcessEvents and batchEncodeIdentities preserve the order: for
\* every batch of valid items the result list has the length of the input
\* and its i-th result is that of the i-th input (same userId and content),
\* in whatever order the computations complete.
C20_BatchOrderPreserved ==
  /\ \A i \in DoneCalls("batchProcessEvents") :
       /\ Len(calls[i].ret) = Len(calls[i].args)
       /\ \A k \in DOMAIN calls[i].args :
            /\ calls[i].ret[k].userId = calls[i].args[k].userId
            /\ calls[i].ret[k] = processEventResult(calls[i].args[k])
  /\ \A i \in DoneCalls("batchEncodeIdentities") :
       /\ Len(calls[i].ret) = Len(calls[i].args)
       /\ \A k \in DOMAIN calls[i].args :
            /\ calls[i].ret[k].userId = calls[i].args[k].userId
            /\ calls[i].ret[k].metadata.dataFields = calls[i].args[k].keys

\* batch i has returned after its second promise resolved before its first
OutOfOrder(i) ==
  /\ calls[i].pc = "done"
  /\ Len(calls[i].settled) >= 2
  /\ calls[i].settled[1] = 2 /\ calls[i].settled[2] = 1
  /\ calls[i].args[1].userId # calls[i].args[2].userId
  /\ calls[i].ret[1].userId = calls[i].args[1].userId

\* a batch of events and a batch of identities have both returned after
\* their promises resolved against the order of the items
C20_Witness ==
  /\ \E i \in DoneCalls("batchProcessEvents") : OutOfOrder(i)
  /\ \E i \in DoneCalls("batchEncodeIdentities") : OutOfOrder(i)

\* C21: for every event that passes validation, processEvent returns a
\* significance that is a number of [0,1], whatever the metadata holds (any
\* importance, any timestamp, or none).
C21_SignificanceInUnit ==
  \A i \in DoneCalls("processEvent") : InUnit(calls[i].processed.significance)

\* a timestamp that was supplied and is no date: the event's own, or the one
\* of the metadata
MalformedTimestamp(event) ==
  event.timestamp \in {"string", "invalidDate"} \/ IsNaN(event.age)

\* what the validation is said to reject
InvalidEvent(event) ==
  \/ event.userId = "" \/ event.userIdType # "string"
  \/ event.contentType # "string" \/ event.length = 0
  \/ event.length < 5 \/ event.length > 10000
  \/ MalformedTimestamp(event)

\* C22: processEvent rejects with ValidationError exactly when the userId is
\* empty or no string, the content is empty or no text, the content length is
\* below 5 or above 10000, or a supplied timestamp is malformed; lengths 5
\* and 10000 are accepted; a rejected event has no ProcessedEvent.
C22_RejectsExactlyInvalid ==
  \A i \in CallsOf("processEvent") :
    /\ Rejected(i) = InvalidEvent(calls[i].event)
    /\ (calls[i].pc = "done") = ~InvalidEvent(calls[i].event)
    /\ Rejected(i) => calls[i].processed = NoProcessed
    /\ (/\ calls[i].event.length \in {5, 10000}
        /\ ~InvalidEvent([calls[i].event EXCEPT !.length = 28]))
         => calls[i].pc = "done"

\* the metadata carries an importance below 0
NegativeImportance(event) == event.importance # Absent /\ Lt(event.importance, 0)

\* C29: with the default threshold 0.5 every event that passes validation
\* and carries no negative importance scores at least 0.5 and is reported
\* with significant = learningTriggered = true.
C29_GateNeverFilters ==
  \A i \in DoneCalls("processEvent") :
    (eventThreshold = 500 /\ ~NegativeImportance(calls[i].event)) =>
      /\ Ge(calls[i].processed.significance, 500)
      /\ calls[i].processed.significant
      /\ calls[i].processed.learningTriggered

\* C23: getLearningMetrics reports, for the user's state, avgSignificance =
\* significantEventCount / eventCount, and 0 when eventCount is 0;
\* totalEvents and significantEvents are the state's eventCount and
\* significantEventCount, which after valid updates made one after another
\* are the number of the updates and of the significant ones among them.
C23_MetricsOfUserState ==
  \A i \in DoneCalls("getLearningMetrics") :
    LET metrics == calls[i].ret
        loaded == calls[i].memoryState
        u == calls[i].userId
    IN /\ metrics.totalEvents = loaded.eventCount
       /\ metrics.significantEvents = loaded.significantEventCount
       /\ metrics.avgSignificance =
            IF loaded.eventCount = 0 THEN 0
            ELSE RoundDiv(loaded.significantEventCount * Scale, loaded.eventCount)
       /\ (/\ OneAfterAnother(u)
           /\ ~calls[i].overlap
           /\ \A j \in BatchCalls : calls[j].userId # u)
            => /\ metrics.totalEvents = Cardinality(Earlier(i))
               /\ metrics.significantEvents =
                    Cardinality({j \in Earlier(i) : AtOrAbove(j)})

\* the batches mapped over Promise.all, and those with an item that the
\* validation of its service rejects
ItemBatches == CallsOf("batchProcessEvents") \cup CallsOf("batchEncodeIdentities")
HasInvalidItem(i) ==
  \E k \in DOMAIN calls[i].args :
    IF calls[i].op = "batchProcessEvents" THEN validateEventThrows(calls[i].args[k])
                                          ELSE validateIdentityThrows(calls[i].args[k])

\* a batch with an invalid item never returns a list, holds no promise of
\* an invalid item as resolved, and fails with a ValidationError only
NoPartialResult ==
  \A i \in ItemBatches :
    HasInvalidItem(i) =>
      /\ calls[i].pc # "done"
      /\ calls[i].ret = <<>>
      /\ Len(calls[i].settled) < Len(calls[i].args)
      /\ calls[i].pc = "failed" => calls[i].error = "ValidationError"

\* the step in which a batch fails leaves every other call as it was
FailureIsLocal ==
  \A i \in CallIds :
    (calls[i].pc = "await" /\ calls'[i].pc = "failed") =>
      /\ config' = config
      /\ \A j \in CallIds \ {i} : calls'[j] = calls[j]

\* C24: batchProcessEvents and batchEncodeIdentities are all-or-nothing: if
\* any item is invalid the call rejects with that item's ValidationError and
\* returns no result list, and the failure changes no state of any other
\* user.
C24_BatchAllOrNothing ==
  /\ []NoPartialResult
  /\ [][FailureIsLocal]_vars

\* a batch of events and a batch of identities were both rejected after the
\* promise of their valid first item had resolved, and returned nothing
C24_Witness ==
  \E i \in CallsOf("batchProcessEvents"), j \in CallsOf("batchEncodeIdentities") :
    /\ Rejected(i) /\ calls[i].settled = <<1>> /\ calls[i].ret = <<>>
    /\ Rejected(j) /\ calls[j].settled = <<1>> /\ calls[j].ret = <<>>

\* the similarity of candidate k (from 1) of call i to the query of the call
CandidateSimilarity(i, k) ==
  calculateCosineSimilarity(createTextEmbedding(calls[i].args.query),
                            createTextEmbedding(calls[i].args.candidates[k]))

\* C25: findMostSimilar returns the index, text and similarity of a
\* candidate whose cosine similarity to the query is maximal among all
\* candidates; among equally similar candidates it returns the first; an
\* empty candidate list is rejected with ValidationError.
C25_FirstMostSimilar ==
  \A i \in CallsOf("findMostSimilar") :
    /\ Len(calls[i].args.candidates) = 0 => Rejected(i)
    /\ calls[i].pc = "done" =>
         LET found == calls[i].ret
             candidates == calls[i].args.candidates
             k == found.index + 1
         IN /\ k \in DOMAIN candidates
            /\ found.text = candidates[k]
            /\ found.similarity = CandidateSimilarity(i, k)
            /\ \A m \in DOMAIN candidates :
                 /\ CandidateSimilarity(i, m) <= found.similarity
                 /\ CandidateSimilarity(i, m) = found.similarity => k <= m

\* a search returned the second of three candidates, which is as similar to
\* the query as the third and more similar than the first; another search
\* was rejected for its empty candidate list
C25_Witness ==
  \E i, j \in CallsOf("findMostSimilar") :
    /\ calls[i].pc = "done"
    /\ Len(calls[i].args.candidates) = 3
    /\ calls[i].ret.index = 1
    /\ CandidateSimilarity(i, 3) = calls[i].ret.similarity
    /\ CandidateSimilarity(i, 1) < calls[i].ret.similarity
    /\ Rejected(j)
    /\ calls[j].args.query # <<>>
    /\ calls[j].args.candidates = <<>>

\* the anomalyThreshold call i worked with
AnomalyThresholdOf(i) ==
  IF calls[i].args.anomalyThreshold = Absent THEN 100 ELSE calls[i].args.anomalyThreshold

\* C26: detectAnomalies is monotonic in anomalyThreshold: on the same events
\* a smaller threshold (0.01) never returns more anomalies than a larger one
\* (0.5); with fewer than 2 events the result is empty.
C26_AnomaliesMonotonic ==
  /\ \A i \in DoneCalls("detectAnomalies") :
       Len(calls[i].args.events) < 2 => calls[i].ret = <<>>
  /\ \A i, j \in DoneCalls("detectAnomalies") :
       (/\ calls[i].args.events = calls[j].args.events
        /\ AnomalyThresholdOf(i) < AnomalyThresholdOf(j))
         => Len(calls[i].ret) <= Len(calls[j].ret)

\* C27: batchUpdateMemory returns the final state of applying updateMemory
\* to the events in order, each update starting from the state the previous
\* one produced: its eventCount is the prior eventCount plus the number of
\* events (and its significantEventCount counts the significant ones); for
\* an empty list it returns the current state with unchanged counters.
C27_BatchIsSequential ==
  \A i \in BatchCalls :
    calls[i].pc = "done" =>
      \A noise \in UpdateNoise :
        LET prior == getMemoryState(calls[i].userId, noise)
            events == calls[i].events
        IN /\ calls[i].batchState.eventCount = prior.eventCount + Len(events)
           /\ calls[i].batchState.significantEventCount =
                prior.significantEventCount
                + Cardinality({k \in DOMAIN events : events[k][2] >= SIGNIFICANCE_THRESHOLD})
           /\ Len(events) = 0 => calls[i].batchState.state = prior.state

\* C28: the privacy metadata of an encoded identity is consistent with its
\* budget: metadata.noiseScale times privacyEpsilon is the sensitivity (1.0)
\* for the levels high, medium and low.  noiseScale is rounded to 1/Scale,
\* which the product may show as one unit of it.
C28_NoiseMatchesBudget ==
  \A i \in DoneCalls("encodeIdentity") :
    LET encoded == calls[i].ret
    IN Abs(encoded.metadata.noiseScale * encoded.privacyEpsilon - Scale * MicroScale)
         <= encoded.privacyEpsilon

\* C30: encodeIdentity always returns an embedding whose components are all
\* finite and whose norm is 1, for every outcome of the random draws, a
\* uniform draw of exactly 0 and a sign draw of exactly 0 included.
C30_FiniteUnitEmbedding ==
  \A i \in DoneCalls("encodeIdentity") :
    LET embedding == calls[i].ret.embedding
    IN /\ \A k \in DOMAIN embedding : ~IsNaN(embedding[k]) /\ ~IsInfinite(embedding[k])
       /\ Abs(Norm(embedding) - Scale) <= Tolerance
====
